---- MODULE Spec2Model ----
(***************************************************************************)
(* A model of the validation and dispatch glue of the transfer-learning    *)
(* toolkit:                                                                *)
(*   - ai_downloader.datasets.DataDownloader (constructor and download),   *)
(*   - tlk.datasets.pytorch_dataset.PyTorchDataset (get_batch,             *)
(*     shuffle_split, _make_data_loaders, preprocess),                     *)
(*   - tlt ImageClassificationModel.get_inc_config.                        *)
(* Each component has its own specification (SpecDL for the downloader,    *)
(* Spec and SpecArgs for the dataset, SpecINC for the config); the         *)
(* variables of the other components keep their initial values.            *)
(***************************************************************************)
EXTENDS Integers, Sequences, FiniteSets, TLC

VARIABLES
    dl,         \* the DataDownloader object: its fields, or "absent"
    dl_call,    \* the last DataDownloader call: constructor or download, with arguments
    dl_out,     \* how that call ended
    dl_ext,     \* the external loaders / fetches the last download call made
    ds,         \* the PyTorchDataset object's fields
    ds_call,    \* the last PyTorchDataset call, with its arguments
    ds_out,     \* how that call ended
    split_args, \* arguments of the last shuffle_split that returned (history)
    pre_hist,   \* history of preprocess: successes so far, and whether one preceded the last call
    inc_call,   \* the arguments of the last get_inc_config call
    inc_out     \* how that call ended

vars == <<dl, dl_call, dl_out, dl_ext, ds, ds_call, ds_out, split_args, pre_hist,
          inc_call, inc_out>>
dlVars == <<dl, dl_call, dl_out, dl_ext>>
dsVars == <<ds, ds_call, ds_out, split_args, pre_hist>>
incVars == <<inc_call, inc_out>>

----------------------------------------------------------------------------
(* Bounds of the model.                                                    *)

\* floats are the rationals k / FloatDen
FloatDen == 2
\* integers passed as arguments range over -1 .. MaxInt
MaxInt == 2
\* datasets hold at most MaxLen examples
MaxLen == 2
\* an archive holds at most MaxMembers members
MaxMembers == 3
\* integer seeds range over 0 .. MaxSeed
MaxSeed == 1

----------------------------------------------------------------------------
(* Python values: a type tag and a payload.  A float's payload k stands    *)
(* for k / FloatDen, a string's payload is its length.                     *)

PyNone == [t |-> "none", v |-> 0]
PyInt(n) == [t |-> "int", v |-> n]
PyFloat(k) == [t |-> "float", v |-> k]
PyStr(len) == [t |-> "str", v |-> len]

\* bool(x)
Truthy(x) == x.t # "none" /\ x.v # 0
\* isinstance(x, float), isinstance(x, int)
IsFloat(x) == x.t = "float"
IsInt(x) == x.t = "int"
\* whether x can be ordered against a number (else the comparison raises TypeError)
IsNumber(x) == x.t \in {"int", "float"}
\* the value of a number, in units of 1 / FloatDen
Num(x) == IF x.t = "int" THEN x.v * FloatDen ELSE x.v

Min(a, b) == IF a < b THEN a ELSE b

----------------------------------------------------------------------------
(* ImageClassificationModel.get_inc_config                                 *)

\* lines 90-93: accuracy_criterion_relative and not isinstance(.., float) or
\*              not (0.0 <= accuracy_criterion_relative <= 1.0)
CheckAccuracyCriterion(a) ==
    IF Truthy(a) /\ ~IsFloat(a) THEN "ValueError"
    ELSE IF ~IsNumber(a) THEN "TypeError"
    ELSE IF ~(0 <= Num(a) /\ Num(a) <= FloatDen) THEN "ValueError"
    ELSE "ok"

\* lines 94-96: exit_policy_timeout and not isinstance(.., int) or exit_policy_timeout < 0
CheckTimeout(x) ==
    IF Truthy(x) /\ ~IsInt(x) THEN "ValueError"
    ELSE IF ~IsNumber(x) THEN "TypeError"
    ELSE IF Num(x) < 0 THEN "ValueError"
    ELSE "ok"

\* lines 97-99: exit_policy_max_trials and not isinstance(.., int) or exit_policy_max_trials < 1
CheckMaxTrials(x) ==
    IF Truthy(x) /\ ~IsInt(x) THEN "ValueError"
    ELSE IF ~IsNumber(x) THEN "TypeError"
    ELSE IF Num(x) < 1 * FloatDen THEN "ValueError"
    ELSE "ok"

\* the config the call returns, or the exception that ends it; the three
\* checks run in the order of the source
get_inc_config(a, timeout, max_trials) ==
    IF CheckAccuracyCriterion(a) # "ok" THEN [kind |-> CheckAccuracyCriterion(a)]
    ELSE IF CheckTimeout(timeout) # "ok" THEN [kind |-> CheckTimeout(timeout)]
    ELSE IF CheckMaxTrials(max_trials) # "ok" THEN [kind |-> CheckMaxTrials(max_trials)]
    ELSE [kind |-> "config", relative |-> a, timeout |-> timeout,
          max_trials |-> max_trials]

\* the arguments tried
IncFloats == {PyFloat(k) : k \in -1 .. FloatDen + 1}
IncInts == {PyInt(n) : n \in -1 .. MaxInt}
IncOthers == {PyNone, PyStr(0), PyStr(3)}
AccuracyArgs == IncFloats \cup {PyInt(-1), PyInt(0), PyInt(1)} \cup IncOthers
TimeoutArgs == IncInts \cup {PyFloat(0), PyFloat(1), PyFloat(FloatDen)} \cup IncOthers
MaxTrialsArgs == IncInts \cup {PyFloat(0), PyFloat(1), PyFloat(FloatDen)} \cup IncOthers

\* the defaults of the signature (line 75): 0.01 is a float strictly inside
\* (0, 1), stood for by 1 / FloatDen; 0; 50 is a positive int, stood for by MaxInt
DefaultAccuracy == PyFloat(1)
DefaultTimeout == PyInt(0)
DefaultMaxTrials == PyInt(MaxInt)

IncNoCall == [op |-> "none"]

GetIncConfig ==
    /\ \E a \in AccuracyArgs, t \in TimeoutArgs, m \in MaxTrialsArgs :
          /\ inc_call' = [op |-> "get_inc_config", accuracy_criterion_relative |-> a,
                          exit_policy_timeout |-> t, exit_policy_max_trials |-> m]
          /\ inc_out' = get_inc_config(a, t, m)
    /\ UNCHANGED <<dlVars, dsVars>>

----------------------------------------------------------------------------
(* ai_downloader.datasets: DataDownloader                                  *)

\* Python's None where a string is expected
NoneStr == "<None>"

\* the catalog names of the constructor's docstring (lines 94-96), and one
\* string that is none of them
Catalogs == {"tensorflow_datasets", "torchvision", "hugging_face"}
CatalogArgs == Catalogs \cup {NoneStr, "no_such_catalog"}
UrlArgs == {NoneStr, "http://host/a", "http://host/b"}
DatasetDir == "dataset_dir"

\* DatasetType.from_str (ai_downloader/types.py): the three catalog names
\* give their types, None gives GENERIC, any other string is refused
DatasetTypeFromStr(catalog) ==
    CASE catalog = "tensorflow_datasets" -> "TENSORFLOW_DATASETS"
      [] catalog = "torchvision" -> "TORCHVISION"
      [] catalog = "hugging_face" -> "HUGGING_FACE"
      [] catalog = NoneStr -> "GENERIC"
      [] OTHER -> "ValueError"

\* lines 104-107: the two checks of the source; "pass" when neither raises
CheckSourceMutant(catalog, url) ==
    IF catalog = NoneStr \/ url = NoneStr THEN "ValueError" ELSE "pass"
CheckSource(catalog, url) ==
    IF catalog = NoneStr /\ url = NoneStr THEN "ValueError"
    ELSE IF catalog # NoneStr /\ url # NoneStr THEN "ValueError"
    ELSE "pass"

DlAbsent == [state |-> "absent"]
DlNoCall == [op |-> "none"]
DlNoOut == [kind |-> "none"]

\* DataDownloader.__init__ (lines 87-116); has_subset: whether kwargs holds 'subset'
Construct ==
    /\ \E catalog \in CatalogArgs, url \in UrlArgs, has_subset \in BOOLEAN :
          /\ dl_call' = [op |-> "__init__", catalog |-> catalog, url |-> url]
          /\ IF CheckSource(catalog, url) = "ValueError"
             THEN /\ dl_out' = [kind |-> "ValueError", msg |-> "source"]
                  /\ dl' = DlAbsent
             ELSE IF DatasetTypeFromStr(catalog) = "ValueError"
             THEN /\ dl_out' = [kind |-> "ValueError", msg |-> "type"]
                  /\ dl' = DlAbsent
             ELSE /\ dl_out' = [kind |-> "constructed"]
                  /\ dl' = [state |-> "built", _type |-> DatasetTypeFromStr(catalog),
                            _url |-> url, has_subset |-> has_subset,
                            built_with |-> [catalog |-> catalog, url |-> url]]
    /\ dl_ext' = {}
    /\ UNCHANGED <<dsVars, incVars>>

\* names inside an archive: paths as sequences of components
MemberNames == {<<"a">>, <<"a", "b">>, <<"b">>, <<"c", "a">>}
Archives == {m \in SUBSET MemberNames : Cardinality(m) <= MaxMembers}
\* what a URL may serve: nothing (urlopen raises), a plain file, a tar or a zip
RemoteFiles ==
    {[kind |-> "unreachable", members |-> {}], [kind |-> "plain", members |-> {}]}
    \cup {[kind |-> k, members |-> m] : k \in {"tar", "zip"}, m \in Archives}

\* lines 59 and 74: {i.split('/')[0] for i in names}
TopLevel(members) == {Head(n) : n \in members}
\* os.path.join(self._dataset_dir, i)
Join(dir, i) == <<dir, i>>

\* lines 163-168: the list of paths when there is more than one, else contents[0]
ContentsResult(contents) ==
    IF Cardinality(contents) > 1
    THEN [kind |-> "list", paths |-> {Join(DatasetDir, i) : i \in contents}]
    ELSE IF contents = {}
    THEN [kind |-> "IndexError"]
    ELSE [kind |-> "str", path |-> Join(DatasetDir, CHOOSE i \in contents : TRUE)]

\* lines 154-171, after download_file returned: file is what was fetched,
\* isfile whether os.path.isfile finds it
GenericResult(file, isfile) ==
    IF ~isfile THEN [kind |-> "FileNotFoundError"]
    ELSE IF file.kind \in {"tar", "zip"} THEN ContentsResult(TopLevel(file.members))
    ELSE [kind |-> "str", path |-> Join(DatasetDir, "file")]

\* lines 129, 139, 146, 153: the branch a download takes ("none": no test
\* of the if/elif chain holds and download returns None)
DownloadBranchMutant(type) ==
    IF type \in {"TENSORFLOW_DATASETS", "TORCHVISION"} THEN "tfds"
    ELSE IF type = "HUGGING_FACE" THEN "hugging_face"
    ELSE IF type = "GENERIC" THEN "generic"
    ELSE "none"
DownloadBranch(type) ==
    IF type = "TENSORFLOW_DATASETS" THEN "tfds"
    ELSE IF type = "TORCHVISION" THEN "torchvision"
    ELSE IF type = "HUGGING_FACE" THEN "hugging_face"
    ELSE IF type = "GENERIC" THEN "generic"
    ELSE "none"

\* split: a string, or a list of strings
SplitArgs == {"train", "test", "list"}
\* what locate('torchvision.datasets.<name>') gives: a class that takes
\* split=, a class that raises TypeError on split= and takes train=, or None
\* (an unknown name), whose call raises TypeError both times
TorchvisionClasses == {"takes_split", "takes_train", "not_found"}

\* lines 130-137: tfds.load with a string split wrapped in a list
DownloadTfds(split) ==
    [kind |-> "dataset", from |-> "tfds.load",
     split |-> IF split = "list" THEN split ELSE "[" \o split \o "]"]

\* lines 140-144
DownloadTorchvision(split, class) ==
    CASE class = "takes_split" ->
           [kind |-> "dataset", from |-> "torchvision.datasets", split |-> split]
      [] class = "takes_train" ->
           [kind |-> "dataset", from |-> "torchvision.datasets",
            split |-> IF split = "train" THEN "train=True" ELSE "train=False"]
      [] OTHER -> [kind |-> "TypeError"]

\* lines 147-151
DownloadHuggingFace(split, has_subset) ==
    [kind |-> "dataset", from |-> "datasets.load_dataset", split |-> split,
     subset |-> has_subset]

\* lines 154-171; download_file (lines 31-45) raises when urlopen does
DownloadGeneric(file, isfile) ==
    IF file.kind = "unreachable" THEN [kind |-> "URLError"]
    ELSE GenericResult(file, isfile)

\* the external entry point each branch calls
BranchCallee(branch) ==
    CASE branch = "tfds" -> {"tfds.load"}
      [] branch = "torchvision" -> {"torchvision.datasets"}
      [] branch = "hugging_face" -> {"datasets.load_dataset"}
      [] branch = "generic" -> {"urllib.urlopen"}
      [] OTHER -> {}

\* DataDownloader.download (lines 118-171). The call record keeps what the
\* outside world answered: the file the URL served and whether it is found
\* on disk afterwards (generic), the class located (torchvision).
Download ==
    /\ dl.state = "built"
    /\ \E split \in SplitArgs, file \in RemoteFiles, isfile \in BOOLEAN,
          class \in TorchvisionClasses :
          LET branch == DownloadBranch(dl._type) IN
          /\ dl_call' = [op |-> "download", split |-> split,
                         world |-> CASE branch = "generic" ->
                                          [file |-> file, isfile |-> isfile]
                                     [] branch = "torchvision" -> [class |-> class]
                                     [] OTHER -> [none |-> TRUE]]
          /\ dl_ext' = BranchCallee(branch)
          /\ dl_out' = CASE branch = "tfds" -> DownloadTfds(split)
                         [] branch = "torchvision" -> DownloadTorchvision(split, class)
                         [] branch = "hugging_face" -> DownloadHuggingFace(split, dl.has_subset)
                         [] branch = "generic" -> DownloadGeneric(file, isfile)
                         [] OTHER -> [kind |-> "None"]
    /\ UNCHANGED dl
    /\ UNCHANGED <<dsVars, incVars>>

----------------------------------------------------------------------------
(* tlk.datasets.pytorch_dataset: PyTorchDataset                            *)

\* an optional value: Python's None, or a value
None == [some |-> FALSE]
Some(x) == [some |-> TRUE, val |-> x]

\* the string 'variable' (its length tells it from the other strings tried)
Variable == PyStr(8)

\* int(x) of a quotient a / b, b > 0: truncation toward zero
TruncDiv(a, b) == IF a >= 0 THEN a \div b ELSE -((-a) \div b)

\* s[lo:hi] as Python slices a list: negative bounds count from the end,
\* and both are clamped to the list
SliceBound(i, n) == IF i < 0 THEN (IF i + n < 0 THEN 0 ELSE i + n) ELSE Min(i, n)
PySlice(s, lo, hi) ==
    IF SliceBound(lo, Len(s)) >= SliceBound(hi, Len(s)) THEN <<>>
    ELSE SubSeq(s, SliceBound(lo, Len(s)) + 1, SliceBound(hi, Len(s)))

\* the permutations of 0 .. n-1, as lists
Perms(n) == {p \in [1 .. n -> 0 .. n - 1] : \A i, j \in 1 .. n : p[i] = p[j] => i = j}
\* torch.randperm(n, generator=torch.Generator().manual_seed(seed)): the
\* permutation is a function of the seed and of n alone (here: a rotation)
SeededPerm(seed, n) == [i \in 1 .. n |-> ((i - 1) + seed) % n]

\* line 110: torch.Generator().manual_seed(seed) if seed else None
Generator(seed) == IF Truthy(seed) THEN Some(seed.v) ELSE None

\* line 111: the permutations randperm may return: the seeded one, or, on
\* the global generator, any
RandPerms(n, generator) ==
    IF generator.some THEN {SeededPerm(generator.val, n)} ELSE Perms(n)

\* lines 101-104: the checks of the percentages
CheckPercentagesMutant(train_pct, val_pct, test_pct) ==
    IF ~IsFloat(train_pct) THEN "ValueError"
    ELSE IF IsFloat(val_pct) /\ IsFloat(test_pct)
            /\ Num(train_pct) + Num(val_pct) + Num(test_pct) > FloatDen THEN "ValueError"
    ELSE "pass"
CheckPercentages(train_pct, val_pct, test_pct) ==
    IF ~(IsFloat(train_pct) /\ IsFloat(val_pct) /\ IsFloat(test_pct)) THEN "ValueError"
    ELSE IF Num(train_pct) + Num(val_pct) + Num(test_pct) > FloatDen THEN "ValueError"
    ELSE "pass"

\* lines 107-109: int(pct * length)
SplitSize(pct, length) == TruncDiv(Num(pct) * length, FloatDen)

\* a DataLoader over the examples `over`, or None when there are none
\* (lines 129-148: the tests are on the truth of the dataset / the indices)
MakeLoader(over, batch_size, generator) ==
    IF over.some /\ over.val # <<>>
    THEN Some([over |-> over.val, batch_size |-> batch_size, generator |-> generator])
    ELSE None

\* the whole dataset as a list of examples
AllExamples(dataset) ==
    IF dataset.some THEN Some([i \in 1 .. dataset.val |-> i - 1]) ELSE None

\* _make_data_loaders (lines 122-148): the object d with its four loaders remade
MakeDataLoaders(d, batch_size, generator) ==
    [d EXCEPT !._data_loader = MakeLoader(AllExamples(d._dataset), batch_size, generator),
              !._train_loader = MakeLoader(d._train_indices, batch_size, generator),
              !._validation_loader = MakeLoader(d._validation_indices, batch_size, generator),
              !._test_loader = MakeLoader(d._test_indices, batch_size, generator)]

DsNoCall == [op |-> "none"]
DsNoOut == [kind |-> "none"]

\* the percentages, seeds and other arguments tried
TrainPctArgs == {PyFloat(0), PyFloat(1), PyFloat(FloatDen)}
OtherPctArgs == {PyFloat(0), PyFloat(1)}
AnyPctArgs ==
    {PyFloat(k) : k \in -1 .. FloatDen + 1} \cup {PyInt(0), PyInt(1), PyNone, PyStr(3)}
SeedArgs == {PyNone} \cup {PyInt(n) : n \in 0 .. MaxSeed}
SubsetArgs == {"all", "train", "validation", "test", "no_such_subset"}
ImageSizeArgs == {Variable, PyStr(3), PyInt(0), PyInt(1)}
BatchSizeArgs == {PyNone, PyInt(0), PyInt(1)}

\* the object after construction: BaseDataset.__init__ (tlk/datasets/dataset.py)
\* leaves every field None; a subclass's constructor loads the dataset
NewDataset(dataset) ==
    [_dataset |-> dataset,
     _train_indices |-> None, _validation_indices |-> None, _test_indices |-> None,
     _train_subset |-> None, _validation_subset |-> None, _test_subset |-> None,
     _data_loader |-> None, _train_loader |-> None, _validation_loader |-> None,
     _test_loader |-> None,
     _preprocessed |-> None, _validation_type |-> "None", transform |-> "None"]

\* next(iter(loader)): the first batch of the loader, TypeError when the
\* loader is None
FirstBatch(name, loader) ==
    IF loader.some THEN [kind |-> "batch", loader |-> name, of |-> loader.val]
    ELSE [kind |-> "TypeError"]

\* get_batch (lines 66-87)
get_batch(d, subset) ==
    IF subset = "all" /\ d._dataset.some THEN FirstBatch("all", d._data_loader)
    ELSE IF subset = "train" /\ d._train_subset.some
    THEN FirstBatch("train", d._train_loader)
    ELSE IF subset = "validation" /\ d._validation_subset.some
    THEN FirstBatch("validation", d._validation_loader)
    ELSE IF subset = "test" /\ d._test_subset.some THEN FirstBatch("test", d._test_loader)
    ELSE [kind |-> "ValueError"]

GetBatch ==
    /\ \E subset \in SubsetArgs :
          /\ ds_call' = [op |-> "get_batch", subset |-> subset]
          /\ ds_out' = get_batch(ds, subset)
    /\ pre_hist' = [pre_hist EXCEPT !.before = pre_hist.ok > 0]
    /\ UNCHANGED <<ds, split_args>>
    /\ UNCHANGED <<dlVars, incVars>>

\* lines 106-120 of shuffle_split, for the permutation randperm returned
SplitObjectMutant(d, train_pct, val_pct, test_pct, seed, perm) ==
    LET length == d._dataset.val
        train_size == SplitSize(train_pct, length)
        val_size == SplitSize(val_pct, length)
        test_size == SplitSize(test_pct, length)
        split == [d EXCEPT
            !._train_indices = Some(PySlice(perm, 0, train_size)),
            !._validation_indices = Some(PySlice(perm, train_size, train_size + val_size)),
            !._test_indices =
                IF Truthy(test_pct)
                THEN Some(PySlice(perm, train_size + val_size,
                                  train_size + val_size + test_size))
                ELSE None]
    IN  IF d._preprocessed.some
        THEN MakeDataLoaders(split, d._preprocessed.val.batch_size, Generator(seed))
        ELSE split
SplitObject(d, train_pct, val_pct, test_pct, seed, perm) ==
    LET length == d._dataset.val
        train_size == SplitSize(train_pct, length)
        val_size == SplitSize(val_pct, length)
        test_size == SplitSize(test_pct, length)
        split == [d EXCEPT
            !._train_indices = Some(PySlice(perm, 0, train_size)),
            !._validation_indices = Some(PySlice(perm, train_size, train_size + val_size)),
            !._test_indices =
                IF Truthy(test_pct)
                THEN Some(PySlice(perm, train_size + val_size,
                                  train_size + val_size + test_size))
                ELSE None,
            !._validation_type = "shuffle_split"]
    IN  IF d._preprocessed.some
        THEN MakeDataLoaders(split, d._preprocessed.val.batch_size, Generator(seed))
        ELSE split

\* shuffle_split (lines 89-120); len(None) raises TypeError
ShuffleSplit(train_pct, val_pct, test_pct, seed) ==
    LET args == [train_pct |-> train_pct, val_pct |-> val_pct,
                 test_pct |-> test_pct, seed |-> seed]
    IN
    /\ ds_call' = [op |-> "shuffle_split", args |-> args]
    /\ IF CheckPercentages(train_pct, val_pct, test_pct) = "ValueError"
       THEN /\ ds_out' = [kind |-> "ValueError"]
            /\ UNCHANGED <<ds, split_args>>
       ELSE IF ~ds._dataset.some
       THEN /\ ds_out' = [kind |-> "TypeError"]
            /\ UNCHANGED <<ds, split_args>>
       ELSE /\ \E perm \in RandPerms(ds._dataset.val, Generator(seed)) :
                  ds' = SplitObject(ds, train_pct, val_pct, test_pct, seed, perm)
            /\ ds_out' = [kind |-> "returned"]
            /\ split_args' = Some(args)
    /\ pre_hist' = [pre_hist EXCEPT !.before = pre_hist.ok > 0]
    /\ UNCHANGED <<dlVars, incVars>>

\* shuffle_split on an object in use: float percentages
SplitCall ==
    \E train_pct \in TrainPctArgs, val_pct \in OtherPctArgs, test_pct \in OtherPctArgs,
       seed \in SeedArgs :
        ShuffleSplit(train_pct, val_pct, test_pct, seed)

\* shuffle_split as the first call on an object: arguments of any type
FirstSplitCall ==
    /\ ds_call = DsNoCall
    /\ \E train_pct \in AnyPctArgs, val_pct \in AnyPctArgs, test_pct \in AnyPctArgs,
          seed \in SeedArgs :
           ShuffleSplit(train_pct, val_pct, test_pct, seed)

\* lines 161-171: the checks of preprocess, in the order of the source
CheckPreprocessMutant(d, image_size, batch_size) ==
    IF ~(d._dataset.some /\ d._dataset.val > 0) THEN "ValueError"
    ELSE IF ~IsInt(batch_size) \/ Num(batch_size) < 1 * FloatDen THEN "ValueError"
    ELSE IF image_size # Variable /\ ~(IsInt(image_size) /\ Num(image_size) >= 1 * FloatDen)
    THEN "ValueError"
    ELSE "pass"
CheckPreprocess(d, image_size, batch_size) ==
    IF ~(d._dataset.some /\ d._dataset.val > 0) THEN "ValueError"
    ELSE IF d._preprocessed.some THEN "ValueError"
    ELSE IF ~IsInt(batch_size) \/ Num(batch_size) < 1 * FloatDen THEN "ValueError"
    ELSE IF image_size # Variable /\ ~(IsInt(image_size) /\ Num(image_size) >= 1 * FloatDen)
    THEN "ValueError"
    ELSE "pass"

\* lines 173-180: the transforms composed
get_transform(image_size) ==
    IF IsInt(image_size) THEN "Resize,ToTensor,Normalize" ELSE "ToTensor,Normalize"

\* the most preprocess successes the history counts
MaxCount == 2

\* preprocess (lines 150-184)
Preprocess ==
    /\ \E image_size \in ImageSizeArgs, batch_size \in BatchSizeArgs :
          /\ ds_call' = [op |-> "preprocess", image_size |-> image_size,
                         batch_size |-> batch_size]
          /\ IF CheckPreprocess(ds, image_size, batch_size) = "ValueError"
             THEN /\ ds_out' = [kind |-> "ValueError"]
                  /\ pre_hist' = [pre_hist EXCEPT !.before = pre_hist.ok > 0]
                  /\ UNCHANGED ds
             ELSE /\ ds_out' = [kind |-> "returned"]
                  /\ pre_hist' = [ok |-> Min(pre_hist.ok + 1, MaxCount),
                                  before |-> pre_hist.ok > 0]
                  /\ ds' = [MakeDataLoaders([ds EXCEPT !.transform = get_transform(image_size)],
                                            batch_size.v, None)
                            EXCEPT !._preprocessed =
                                Some([image_size |-> image_size, batch_size |-> batch_size.v])]
    /\ UNCHANGED split_args
    /\ UNCHANGED <<dlVars, incVars>>

----------------------------------------------------------------------------
(* The specifications.                                                     *)

DlInit == dl = DlAbsent /\ dl_call = DlNoCall /\ dl_out = DlNoOut /\ dl_ext = {}
IncInit == inc_call = IncNoCall /\ inc_out = [kind |-> "none"]
DsRest == ds_call = DsNoCall /\ ds_out = DsNoOut /\ split_args = None
          /\ pre_hist = [ok |-> 0, before |-> FALSE]
\* a dataset object as its subclass's constructor leaves it: with no
\* dataset, or with one of 0 .. MaxLen examples
DsInit == ds \in {NewDataset(None)} \cup {NewDataset(Some(n)) : n \in 0 .. MaxLen}
\* no dataset object in play
DsIdle == ds = NewDataset(None)

\* the dataset object
Init == DlInit /\ DsInit /\ DsRest /\ IncInit
Next == GetBatch \/ SplitCall \/ Preprocess
Spec == Init /\ [][Next]_vars

\* the argument checks of shuffle_split
NextArgs == FirstSplitCall
SpecArgs == Init /\ [][NextArgs]_vars

\* the downloader
InitDL == DlInit /\ DsIdle /\ DsRest /\ IncInit
NextDL == Construct \/ Download
SpecDL == InitDL /\ [][NextDL]_vars

\* the INC config
NextINC == GetIncConfig
SpecINC == InitDL /\ [][NextINC]_vars

----------------------------------------------------------------------------
(* The claims.                                                             *)

\* C1: the constructor raises the source ValueError exactly when catalog and
\* url are both None or both given, and not when exactly one is given.
C1_SourceValueError ==
    dl_call.op = "__init__" =>
        ((dl_out.kind = "ValueError" /\ dl_out.msg = "source")
         <=> ((dl_call.catalog = NoneStr) <=> (dl_call.url = NoneStr)))
C1_Witness ==
    /\ dl_call.op = "__init__"
    /\ dl_call.catalog = "torchvision" /\ dl_call.url = "http://host/a"
    /\ dl_out.kind = "ValueError"

\* whether the last call was a download, by a downloader built from a url,
\* that fetched an archive found on disk
FetchedArchive ==
    /\ dl_call.op = "download"
    /\ dl.built_with.url # NoneStr
    /\ dl_call.world.file.kind \in {"tar", "zip"}
    /\ dl_call.world.isfile

\* C2: for a downloader built from a url, a download of a tar or zip archive
\* returns the single string dataset_dir/<member> when the archive has one
\* top-level member, and the list of such strings, one per distinct top-level
\* member, when it has more; it ends in no other way.
C2_ArchivePaths ==
    FetchedArchive =>
        LET top == {Head(n) : n \in dl_call.world.file.members} IN
        \/ /\ Cardinality(top) = 1
           /\ dl_out.kind = "str"
           /\ \E m \in top : dl_out.path = <<DatasetDir, m>>
        \/ /\ Cardinality(top) > 1
           /\ dl_out.kind = "list"
           /\ dl_out.paths = {<<DatasetDir, m>> : m \in top}

\* the loader of each catalog
LoaderOf(catalog) ==
    CASE catalog = "tensorflow_datasets" -> "tfds.load"
      [] catalog = "torchvision" -> "torchvision.datasets"
      [] catalog = "hugging_face" -> "datasets.load_dataset"

\* C3: a download takes exactly one branch, fixed by the source given at
\* construction: a downloader built with a catalog calls that catalog's
\* loader and nothing else, one built with a url fetches the URL and nothing
\* else, whatever the split.
C3_Dispatch ==
    dl_call.op = "download" =>
        /\ Cardinality(dl_ext) = 1
        /\ dl.built_with.catalog # NoneStr => dl_ext = {LoaderOf(dl.built_with.catalog)}
        /\ dl.built_with.url # NoneStr => dl_ext = {"urllib.urlopen"}
C3_Witness ==
    /\ dl_call.op = "download"
    /\ dl.built_with.catalog = "torchvision"
    /\ dl_call.split = "test"
    /\ dl_ext = {"torchvision.datasets"}

\* C4: shuffle_split raises ValueError whenever one of the three percentages
\* is not a float, and whenever the three sum to more than 1.
C4_PercentagesChecked ==
    ds_call.op = "shuffle_split" =>
        LET a == ds_call.args
            floats == a.train_pct.t = "float" /\ a.val_pct.t = "float" /\ a.test_pct.t = "float"
        IN  (~floats \/ a.train_pct.v + a.val_pct.v + a.test_pct.v > FloatDen)
                => ds_out.kind = "ValueError"
C4_Witness ==
    /\ ds_call.op = "shuffle_split"
    /\ ds_call.args.train_pct = PyFloat(FloatDen)
    /\ ds_call.args.val_pct = PyFloat(1)
    /\ ds_call.args.test_pct = PyFloat(0)
    /\ ds_out.kind = "ValueError"

\* C5: for every integer seed, a shuffle_split with the seed and percentages
\* of the last shuffle_split that returned, on the same dataset, leaves the
\* same train, validation and test indices.
C5_SeededSplitRepeats ==
    [][(/\ ds_call'.op = "shuffle_split"
        /\ ds_out'.kind = "returned"
        /\ split_args.some
        /\ split_args' = split_args
        /\ split_args.val.seed.t = "int")
       => /\ ds'._train_indices = ds._train_indices
          /\ ds'._validation_indices = ds._validation_indices
          /\ ds'._test_indices = ds._test_indices]_vars

\* C6: preprocess succeeds at most once on an object; a preprocess call with
\* no dataset, or after a successful preprocess, raises ValueError whatever
\* its arguments.
C6_PreprocessOnce ==
    /\ pre_hist.ok <= 1
    /\ ds_call.op = "preprocess" =>
          ((pre_hist.before \/ ~ds._dataset.some) => ds_out.kind = "ValueError")
C6_Witness ==
    /\ ds_call = [op |-> "preprocess", image_size |-> Variable, batch_size |-> PyInt(1)]
    /\ ds._dataset.some /\ ds._dataset.val > 0
    /\ pre_hist = [ok |-> 1, before |-> TRUE]
    /\ ds_out.kind = "ValueError"

\* the subsets of lines 38-48: defined when their indices are a non-empty list
SubsetDefined(d, subset) ==
    CASE subset = "all" -> TRUE
      [] subset = "train" -> d._train_indices.some /\ d._train_indices.val # <<>>
      [] subset = "validation" ->
           d._validation_indices.some /\ d._validation_indices.val # <<>>
      [] subset = "test" -> d._test_indices.some /\ d._test_indices.val # <<>>
      [] OTHER -> FALSE

\* C7: get_batch raises ValueError when the dataset is not defined or the
\* subset is not a name of a defined subset, and in every other case returns
\* the first batch of the loader of that subset.
C7_BatchOrValueError ==
    ds_call.op = "get_batch" =>
        IF ~ds._dataset.some \/ ~SubsetDefined(ds, ds_call.subset)
        THEN ds_out.kind = "ValueError"
        ELSE ds_out.kind = "batch" /\ ds_out.loader = ds_call.subset

\* the values each claim takes get_inc_config to accept
AccuracyAccepted(a) == a.t = "float" /\ 0 <= a.v /\ a.v <= FloatDen
TimeoutAccepted(x) == x.t = "int" /\ x.v >= 0
MaxTrialsAccepted(x) == x.t = "int" /\ x.v > 0

\* C8: with the other two arguments acceptable, get_inc_config returns a
\* config whose accuracy criterion is the argument when it is a float in
\* [0, 1], and raises ValueError for every other value.
C8_AccuracyCriterion ==
    (/\ inc_call.op = "get_inc_config"
     /\ TimeoutAccepted(inc_call.exit_policy_timeout)
     /\ MaxTrialsAccepted(inc_call.exit_policy_max_trials))
    => IF AccuracyAccepted(inc_call.accuracy_criterion_relative)
       THEN inc_out.kind = "config"
            /\ inc_out.relative = inc_call.accuracy_criterion_relative
       ELSE inc_out.kind = "ValueError"

\* C9: with the other two arguments acceptable, get_inc_config returns a
\* config whose timeout is the argument when it is an int >= 0, and raises
\* ValueError for every other value.
C9_Timeout ==
    (/\ inc_call.op = "get_inc_config"
     /\ AccuracyAccepted(inc_call.accuracy_criterion_relative)
     /\ MaxTrialsAccepted(inc_call.exit_policy_max_trials))
    => IF TimeoutAccepted(inc_call.exit_policy_timeout)
       THEN inc_out.kind = "config" /\ inc_out.timeout = inc_call.exit_policy_timeout
       ELSE inc_out.kind = "ValueError"

\* C10: with the other two arguments acceptable, get_inc_config returns a
\* config whose max_trials is the argument when it is an int > 0, and raises
\* ValueError for every other value.
C10_MaxTrials ==
    (/\ inc_call.op = "get_inc_config"
     /\ AccuracyAccepted(inc_call.accuracy_criterion_relative)
     /\ TimeoutAccepted(inc_call.exit_policy_timeout))
    => IF MaxTrialsAccepted(inc_call.exit_policy_max_trials)
       THEN inc_out.kind = "config" /\ inc_out.max_trials = inc_call.exit_policy_max_trials
       ELSE inc_out.kind = "ValueError"

\* C11: after every shuffle_split call that returns, the dataset's
\* validation type is 'shuffle_split', whatever it was before the call and
\* whether or not the data loaders were remade.
C11_ValidationType ==
    (ds_call.op = "shuffle_split" /\ ds_out.kind = "returned")
        => ds._validation_type = "shuffle_split"
C11_Witness ==
    /\ ds_call.op = "shuffle_split"
    /\ ds_out.kind = "returned"
    /\ ds._preprocessed.some
    /\ ds._train_loader.some
    /\ ds._validation_type = "shuffle_split"

\* floor(pct * n) for a float percentage
FloorOf(pct, n) == (pct.v * n) \div FloatDen
\* the number of indices a split holds (none when it is None)
Count(indices) == IF indices.some THEN Len(indices.val) ELSE 0

\* C12: after a shuffle_split that returns on a dataset of n examples, the
\* train split has exactly floor(train_pct * n) indices, the validation
\* split floor(val_pct * n), the test split (when test_pct is not zero)
\* floor(test_pct * n); the three hold at most n indices together and are
\* consecutive slices of one permutation of 0 .. n-1.
C12_SplitSizes ==
    (ds_call.op = "shuffle_split" /\ ds_out.kind = "returned") =>
        LET n == ds._dataset.val
            a == FloorOf(ds_call.args.train_pct, n)
            b == FloorOf(ds_call.args.val_pct, n)
            c == FloorOf(ds_call.args.test_pct, n)
        IN  /\ Count(ds._train_indices) = a
            /\ Count(ds._validation_indices) = b
            /\ ds_call.args.test_pct.v # 0 => Count(ds._test_indices) = c
            /\ Count(ds._train_indices) + Count(ds._validation_indices)
                 + Count(ds._test_indices) <= n
            /\ \E perm \in Perms(n) :
                  /\ ds._train_indices.val = SubSeq(perm, 1, a)
                  /\ ds._validation_indices.val = SubSeq(perm, a + 1, a + b)
                  /\ ds._test_indices.some
                        => ds._test_indices.val = SubSeq(perm, a + b + 1, a + b + c)

====
